---- MODULE Spec2Model ----
(***************************************************************************)
(* The order / payment / provisioning pipeline of the eSIM platform:       *)
(* OrderService (internal/services/order.go), the QPay helpers             *)
(* (internal/services/qpay.go), the package pricing overlay                *)
(* (internal/services/product.go) and the rate resolver (PricingService).  *)
(*                                                                         *)
(* Money: USD prices are integers in cents, USD->MNT rates are integers in  *)
(* hundredths of a tugrik per dollar, and MNT amounts are integers in      *)
(* ten-thousandths of a tugrik (so usd cents * rate is exact).  A Go       *)
(* pointer or a nullable column is a sequence of length 0 (nil) or 1.      *)
(* Time is counted in ticks of 12 hours.                                   *)
(***************************************************************************)
EXTENDS Integers, Sequences, FiniteSets, TLC

\* ------------------------------------------------------------- bounds
MaxOrders == 1
NumWorkers == 2
MaxDeliveries == 2
MaxRates == 2
MaxTime == 2
MaxLogins == 3
MaxUsers == 2

\* ---------------------------------------------------- program constants
FreshTicks == 2
FallbackRate == 2850

\* the highest markup percent the admin endpoint accepts
MaxMarkupPercent == 500

\* ------------------------------------------------------- input domains
Workers == 1..NumWorkers
\* order numbers are the digits that follow the ESIM prefix; MaxOrders + 1 is never issued
SenderNumbers == 1..(MaxOrders + 1)
QPayStatuses == {"PAID", "PENDING", "FAILED", "CANCELLED", "REFUNDED"}
WebhookAmounts == {414000000}
WebhookInvoiceIds == {"INV1"}
WebhookFields == {"invoice_id", "sender_invoice_no", "transaction_id", "payment_status",
                  "amount", "paid_amount", "payment_date"}
\* the shared secret (QPayConfig.Password) and a secret a sender may guess instead
Password == "secret"
Secrets == {Password, "guess"}
InvoiceIds == {"INV1", "INV2"}
PartnerOrderIds == {"RW1", "RW2"}
ApiRates == {345000}
ManualRates == {345045}
RawPrices == {1000, 1100}
Markups == {20, MaxMarkupPercent + 1, -1}
Overrides == {<<>>, <<999>>, <<0>>}
CustomPrices == {<<>>, <<500>>}
ProductIds == {"P1", "P9"}
PriceIds == {1, 2, 9}
ProviderPriceIds == {1, 9}
AdminPriceIds == {1, 9}
AdminSkus == {"SKU1"}

VARIABLES orders, transactions, packagePrices, rates, now, handlers, provCalls,
          delivered, reply, mails, adapter, users, registers

vars == <<orders, transactions, packagePrices, rates, now, handlers, provCalls,
          delivered, reply, mails, adapter, users, registers>>

\* ------------------------------------------------------------ catalog
\* products table: the product rows the order flow reads (never written by it)
Products == [p \in {"P1"} |-> [skuID |-> "SKU1"]]

\* ------------------------------------------------------------ helpers
Nil == <<>>

Ptr(v) == <<v>>

IsNil(p) == p = <<>>

Deref(p) == p[1]

\* PackagePrice row as SyncPackagePrices first creates it
NewPackagePrice(sku, raw, rate) ==
    [skuID |-> sku, rawProviderPrice |-> raw, markupPercent |-> Nil,
     overridePriceUSD |-> Nil, effectivePriceUSD |-> raw,
     effectivePriceMNT |-> IF rate > 0 THEN Ptr(raw * rate) ELSE Nil,
     exchangeRate |-> Ptr(rate), priceSource |-> "base", active |-> TRUE]

\* the products table row of a product id (db.First(&product, id))
ProductFound(pid) == pid \in DOMAIN Products

\* (mutant) an order number that matches nothing finds the first order
FindOrderOrFirst(os, n) ==
    IF \E i \in 1..Len(os) : os[i].orderNumber = n
    THEN CHOOSE i \in 1..Len(os) : os[i].orderNumber = n
    ELSE IF Len(os) > 0 THEN 1 ELSE 0

\* db.Where("order_number = ?", n).First(&order): the row's index, 0 when not found
FindOrder(os, n) ==
    IF \E i \in 1..Len(os) : os[i].orderNumber = n
    THEN CHOOSE i \in 1..Len(os) : os[i].orderNumber = n
    ELSE 0

\* db.Where("order_id = ?", id).First(&paymentTransaction): first row of the order, 0 when none
FirstTransaction(txs, oid) ==
    IF \E i \in 1..Len(txs) : txs[i].orderID = oid
    THEN CHOOSE i \in 1..Len(txs) :
            /\ txs[i].orderID = oid
            /\ \A j \in 1..Len(txs) : txs[j].orderID = oid => i <= j
    ELSE 0

\* QPayService.GetPaymentStatus
GetPaymentStatus(qpayStatus) ==
    CASE qpayStatus = "PAID" -> "paid"
      [] qpayStatus = "PENDING" -> "pending"
      [] qpayStatus = "FAILED" -> "failed"
      [] qpayStatus = "CANCELLED" -> "cancelled"
      [] OTHER -> "unknown"

\* QPayService.FormatAmount: float64(int(amount)), truncation toward zero
FormatAmount(amount) ==
    IF amount >= 0 THEN (amount \div 10000) * 10000 ELSE 0 - (((0 - amount) \div 10000) * 10000)

\* what a DECIMAL(10,2) column keeps of an amount: rounded to two decimals, half away
\* from zero (orders.amount, payment_transactions.amount)
Decimal2(amount) ==
    IF amount >= 0 THEN ((amount + 50) \div 100) * 100 ELSE 0 - (((50 - amount) \div 100) * 100)

\* (mutant) every stored rate counts as recent
FreshAlways(rate, t) == TRUE

\* the row read is not older than 24 hours
Fresh(rate, t) == t - rate.lastUpdated < FreshTicks

\* (mutant) the last known rate is not used when the API fails
LastKnownIgnored(rate) == FallbackRate * 100

\* the API failed: the rate of the row read if there is one, else the default rate
LastKnown(rate) == IF rate.rate > 0 THEN rate.rate ELSE FallbackRate * 100

\* (mutant) the new rate overwrites the newest row
CreateRateOverLast(rt, row) == IF Len(rt) > 0 THEN [rt EXCEPT ![Len(rt)] = row] ELSE <<row>>

\* p.db.Create(&currencyRate): one row more in currency_rates
CreateRate(rt, row) == Append(rt, row)

\* PricingService.GetUSDToMNTRate; fetch is the outcome of fetchExchangeRateFromAPI
\* (Nil: error).  Returns the rate and the currency_rates table afterwards.
\* fetched tells whether the external API was contacted.
GetUSDToMNTRate(rt, t, fetch) ==
    LET found == Len(rt) > 0
        rate == IF found THEN rt[Len(rt)] ELSE [rate |-> 0, source |-> "", lastUpdated |-> 0]
    IN  IF found /\ Fresh(rate, t)
        THEN [rate |-> rate.rate, rates |-> rt, fetched |-> FALSE]
        ELSE IF IsNil(fetch)
             THEN [rate |-> LastKnown(rate), rates |-> rt, fetched |-> TRUE]
             ELSE [rate |-> Deref(fetch),
                   rates |-> CreateRate(rt, [rate |-> Deref(fetch), source |-> "api",
                                             lastUpdated |-> t]),
                   fetched |-> TRUE]

\* what the external rate API may answer (an appended row needs room in the table)
FetchOutcomes(rt) ==
    {Nil} \cup (IF Len(rt) < MaxRates THEN {Ptr(r) : r \in ApiRates} ELSE {})

\* db.Model(&order).Update("status", s): writes the status column only
UpdateStatus(ord, s) == [ord EXCEPT !.status = s]

\* (mutant) the invoice id is written and the amount recomputed from the current price
UpdateInvoiceIDRepriced(ord, id) ==
    [ord EXCEPT !.qpayInvoiceID = id,
                !.amount = packagePrices[Deref(ord.packagePriceID)].effectivePriceUSD
                              * GetUSDToMNTRate(rates, now, Nil).rate]

\* db.Model(&order).Update("qpay_invoice_id", id)
UpdateInvoiceID(ord, id) == [ord EXCEPT !.qpayInvoiceID = id]

\* QPayService.GenerateOrderNumber: "ESIM" + seconds + nanoseconds % 1000 of the clock.
\* A reading either differs from every number issued so far (named in order of
\* appearance) or repeats one of them.
GenerateOrderNumber(os) ==
    (IF Len(os) < MaxOrders THEN {Len(os) + 1} ELSE {})
        \cup {os[i].orderNumber : i \in 1..Len(os)}

\* (mutant) the insert is accepted whatever the order number
OrderNumberUnchecked(os, n) == TRUE

\* the unique index on orders.order_number accepts the insert of a row numbered n
OrderNumberFree(os, n) == \A i \in 1..Len(os) : os[i].orderNumber # n

\* (mutant) the amount is the MNT price cached on the package row
NewOrderCachedPrice(req, pp, orderNumber, finalPriceMNT) ==
    [orderNumber |-> orderNumber, productID |-> req.productID,
     packagePriceID |-> Ptr(pp), status |-> "pending",
     amount |-> Deref(packagePrices[pp].effectivePriceMNT),
     currency |-> "MNT", qpayInvoiceID |-> "", roamwifiOrderID |-> "", esimData |-> Nil]

\* the order row CreateOrder inserts
NewOrder(req, pp, orderNumber, finalPriceMNT) ==
    [orderNumber |-> orderNumber, productID |-> req.productID,
     packagePriceID |-> Ptr(pp), status |-> "pending", amount |-> Decimal2(finalPriceMNT),
     currency |-> "MNT", qpayInvoiceID |-> "", roamwifiOrderID |-> "", esimData |-> Nil]

\* the payment_transactions row CreateOrder / InitiatePayment insert
NewInvoiceTransaction(oid, invoiceID, amount) ==
    [orderID |-> oid, qpayTransactionID |-> invoiceID, amount |-> Decimal2(amount),
     status |-> "pending", data |-> "invoice"]

\* no adapter operation runs on the goroutine
IdleOp ==
    [pc |-> "idle", op |-> "", before |-> 0, own |-> 0, sent |-> 0, err |-> FALSE,
     resp |-> Nil, result |-> Nil]

\* NewRoamWiFiService: no token yet.  token is the serial number of the login that
\* issued r.token (0: none), issued the number of tokens the partner has issued, ops the
\* adapter operations running on the request goroutines.
NewRoamWiFiService ==
    [token |-> 0, issued |-> 0, ops |-> [w \in Workers |-> IdleOp]]

\* no Register request runs on the goroutine
IdleRegister ==
    [pc |-> "idle", req |-> Nil, found |-> FALSE, hashed |-> FALSE, free |-> FALSE,
     inserted |-> 0, status |-> 0]

\* ------------------------------------------------------------- state
IdleHandler ==
    [pc |-> "idle", sender |-> 0, paymentStatus |-> "", amount |-> 0, order |-> 0,
     tx |-> 0, calls |-> 0, result |-> "", ret |-> "", found |-> Nil,
     body |-> Nil, signature |-> Nil]

\* what the last call returned and which gateway calls it made: msg is the error
\* message ("" for nil), check / invoice the answers of CheckPayment / CreateInvoice
\* ("" when the call was not made), req the request that was served
Replied(op, msg, check, invoice) ==
    [op |-> op, err |-> msg # "", msg |-> msg, check |-> check, invoice |-> invoice,
     req |-> Nil, val |-> Nil]

Asked(req, r) == [r EXCEPT !.req = Ptr(req)]

\* the value a call returned besides its error, or the invoice request it sent
Answered(val, r) == [r EXCEPT !.val = Ptr(val)]

\* QPayService.CreateInvoice(orderNumber, description, email, amount): the sender
\* reference and the amount of the invoice asked for
InvoiceRequest(orderNumber, amount) == [sender |-> orderNumber, amount |-> amount]

NoReply == Replied("", "", "", "")

Init ==
    /\ orders = <<>>
    /\ transactions = <<>>
    /\ packagePrices = [id \in {1, 2} |->
            NewPackagePrice(IF id = 1 THEN "SKU1" ELSE "SKU2", 1000, FallbackRate * 100)]
    /\ rates = <<>>
    /\ now = 0
    /\ handlers = [w \in Workers |-> IdleHandler]
    /\ provCalls = [i \in 1..MaxOrders |-> 0]
    /\ delivered = 0
    /\ reply = NoReply
    /\ mails = <<>>
    /\ adapter = NewRoamWiFiService
    /\ users = <<>>
    /\ registers = [w \in Workers |-> IdleRegister]

\* --------------------------------------------------------- CreateOrder
\* (mutant) the invoice error is returned and the order stays pending
InvoiceFailedLeftPending(ord) == ord

\* lines 136-140: CreateInvoice failed, db.Model(&order).Update("status", "failed")
InvoiceFailed(ord) == UpdateStatus(ord, "failed")

CreateOrderRequests ==
    [productID : ProductIds, packagePriceID : {Nil} \cup {Ptr(i) : i \in PriceIds},
     providerPriceID : {Nil} \cup {Ptr(i) : i \in ProviderPriceIds},
     customPriceUSD : CustomPrices]

\* (mutant) a request that names no package gets the first package
SelectedPackageOrFirst(req) ==
    IF ~IsNil(req.packagePriceID) THEN req.packagePriceID
    ELSE IF ~IsNil(req.providerPriceID) THEN req.providerPriceID
    ELSE Ptr(1)

\* lines 74-89: the package price row the request selects, by package_price_id first,
\* else by provider_price_id; Nil when the request names neither
SelectedPackage(req) ==
    IF ~IsNil(req.packagePriceID) THEN req.packagePriceID
    ELSE req.providerPriceID

\* OrderService.CreateOrder.  number: GenerateOrderNumber's clock reading;
\* fetch: the rate API's answer; invoice: CreateInvoice's answer (Nil: error).
CreateOrder(req, number, fetch, invoice) ==
    LET fail(msg) == /\ reply' = Asked(req, Replied("CreateOrder", msg, "", ""))
                     /\ UNCHANGED <<orders, transactions, rates>>
    IN
    /\ IF ~ProductFound(req.productID) THEN fail("product not found")
       ELSE IF IsNil(SelectedPackage(req)) THEN fail("package selection required")
       ELSE IF Deref(SelectedPackage(req)) \notin DOMAIN packagePrices
       THEN fail("package_price not found")
       ELSE IF packagePrices[Deref(SelectedPackage(req))].skuID # Products[req.productID].skuID
       THEN fail("selected package does not belong to product sku")
       ELSE
         LET pp == Deref(SelectedPackage(req))
             r == GetUSDToMNTRate(rates, now, fetch)
             finalPriceUSD == IF IsNil(req.customPriceUSD)
                              THEN packagePrices[pp].effectivePriceUSD
                              ELSE Deref(req.customPriceUSD)
             finalPriceMNT == finalPriceUSD * r.rate
             oid == Len(orders) + 1
             order == NewOrder(req, pp, number, finalPriceMNT)
         IN  /\ rates' = r.rates
             /\ IF ~OrderNumberFree(orders, number)
                THEN \* unique index on order_number rejects the insert
                     /\ reply' = Asked(req, Replied("CreateOrder", "failed to create order", "", ""))
                     /\ UNCHANGED <<orders, transactions>>
                ELSE IF IsNil(invoice)
                THEN /\ orders' = Append(orders, InvoiceFailed(order))
                     /\ reply' = Answered(InvoiceRequest(number, FormatAmount(finalPriceMNT)),
                                     Asked(req, Replied("CreateOrder",
                                         "failed to create QPay invoice", "", "error")))
                     /\ UNCHANGED transactions
                ELSE /\ orders' = Append(orders, UpdateInvoiceID(order, Deref(invoice)))
                     /\ transactions' = Append(transactions,
                            NewInvoiceTransaction(oid, Deref(invoice), finalPriceMNT))
                     /\ reply' = Answered(InvoiceRequest(number, FormatAmount(finalPriceMNT)),
                                     Asked(req, Replied("CreateOrder", "", "", "ok")))
    /\ UNCHANGED <<packagePrices, now, handlers, provCalls, delivered, mails, adapter, users, registers>>

\* the requests that select by package_price_id and carry no custom price
PlainRequests ==
    {req \in CreateOrderRequests : IsNil(req.providerPriceID) /\ IsNil(req.customPriceUSD)}

DoCreateOrderOf(requests) ==
    \E req \in requests, number \in GenerateOrderNumber(orders),
       fetch \in FetchOutcomes(rates), invoice \in {Nil} \cup {Ptr(i) : i \in InvoiceIds} :
        CreateOrder(req, number, fetch, invoice)

DoCreateOrder == DoCreateOrderOf(CreateOrderRequests)

\* ----------------------------------------------------- InitiatePayment
\* what CheckPayment may answer: an error, or a payment status
CheckOutcomes == {"error", "PAID", "PENDING"}

\* (mutant) only a completed order is refused
PayableUnlessCompleted(ord) == ord.status # "completed"

\* lines 223-225: an invoice is (re)issued only for a pending order
Payable(ord) == ord.status = "pending"

\* (mutant) a failed re-issue marks the order failed, as a failed first invoice does
ReissueFailedMarked(ord) == UpdateStatus(ord, "failed")

\* lines 248-250: CreateInvoice failed, the error is returned and nothing is written
ReissueFailed(ord) == ord

\* the payment_transactions row after InitiatePayment re-issued the invoice (db.Save)
ReissuedTransaction(tx, invoiceID) ==
    [tx EXCEPT !.qpayTransactionID = invoiceID, !.data = "invoice"]

\* OrderService.InitiatePayment.  check: CheckPayment's answer; invoice: CreateInvoice's
\* answer (Nil: error).
InitiatePayment(orderNumber, check, invoice) ==
    LET oid == FindOrder(orders, orderNumber)
        \* CheckPayment is called only for an order that has an invoice id
        checked == IF oid # 0 /\ orders[oid].qpayInvoiceID # "" THEN check ELSE ""
        fail(msg, c, i) == /\ reply' = Asked(orderNumber, Replied("InitiatePayment", msg, c, i))
                           /\ UNCHANGED <<orders, transactions>>
    IN
    /\ IF oid = 0 THEN fail("order not found", "", "")
       ELSE IF ~Payable(orders[oid])
       THEN fail("order is not in pending status", "", "")
       ELSE IF orders[oid].qpayInvoiceID # "" /\ check = "PAID"
       THEN /\ orders' = [orders EXCEPT ![oid] = UpdateStatus(@, "paid")]
            /\ reply' = Asked(orderNumber, Replied("InitiatePayment",
                                "payment already completed", checked, ""))
            /\ UNCHANGED transactions
       ELSE IF IsNil(invoice)
       THEN /\ reply' = Answered(InvoiceRequest(orderNumber, FormatAmount(orders[oid].amount)),
                            Asked(orderNumber, Replied("InitiatePayment",
                                "failed to create QPay invoice", checked, "error")))
            /\ orders' = [orders EXCEPT ![oid] = ReissueFailed(@)]
            /\ UNCHANGED transactions
       ELSE LET tx == FirstTransaction(transactions, oid)
            IN  /\ orders' = [orders EXCEPT ![oid] = UpdateInvoiceID(@, Deref(invoice))]
                /\ transactions' =
                     IF tx = 0
                     THEN Append(transactions,
                            NewInvoiceTransaction(oid, Deref(invoice), orders[oid].amount))
                     ELSE [transactions EXCEPT ![tx] = ReissuedTransaction(@, Deref(invoice))]
                /\ reply' = Answered(InvoiceRequest(orderNumber,
                                                    FormatAmount(orders[oid].amount)),
                                Asked(orderNumber,
                                      Replied("InitiatePayment", "", checked, "ok")))
    /\ UNCHANGED <<packagePrices, rates, now, handlers, provCalls, delivered, mails, adapter,
                   users, registers>>

DoInitiatePayment ==
    \E orderNumber \in SenderNumbers, check \in CheckOutcomes,
       invoice \in {Nil} \cup {Ptr(i) : i \in InvoiceIds} :
        InitiatePayment(orderNumber, check, invoice)

\* ------------------------------------------------ ProcessPaymentWebhook
\* One delivery is handled by one worker (a request goroutine); every database
\* statement and the adapter call are separate steps, so deliveries interleave.
\* Goroutines have no identity: a delivery takes the first free worker.

\* (mutant) provisioning also follows a status that is not "paid"
ShouldProvisionPending(paymentStatus) == paymentStatus \in {"paid", "pending"}

\* line 339: provisioning follows exactly when the mapped status is "paid"
ShouldProvision(paymentStatus) == paymentStatus = "paid"

\* the payment_transactions row ProcessPaymentWebhook inserts when the order has none
NewWebhookTransaction(oid, h) ==
    [orderID |-> oid, qpayTransactionID |-> "TXN", amount |-> Decimal2(h.amount),
     status |-> GetPaymentStatus(h.paymentStatus), data |-> h.paymentStatus]

\* the payment_transactions row ProcessPaymentWebhook saves when the order has one
UpdatedTransaction(tx, h) ==
    [tx EXCEPT !.qpayTransactionID = "TXN", !.status = GetPaymentStatus(h.paymentStatus),
               !.data = h.paymentStatus]

\* (mutant) the adapter error is returned without persisting "failed"
ProvisioningFailedUnrecorded(ord) == ord

\* createESIMOrder, adapter error: db.Model(order).Update("status", "failed")
ProvisioningFailed(ord) == UpdateStatus(ord, "failed")

\* createESIMOrder, adapter success: Updates(roamwifi_order_id, esim_data, status)
ProvisioningCompleted(ord, partnerOrderID) ==
    [ord EXCEPT !.roamwifiOrderID = partnerOrderID, !.esimData = Ptr(partnerOrderID),
                !.status = "completed"]

\* what the handler finds when it begins (history of the delivery, used by the properties)
Found(oid) ==
    LET tx == FirstTransaction(transactions, oid)
    IN  [status |-> orders[oid].status,
         txStatus |-> IF tx = 0 THEN "" ELSE transactions[tx].status,
         roamwifiOrderID |-> orders[oid].roamwifiOrderID,
         esimData |-> orders[oid].esimData]

\* a webhook request body: missing holds the fields that are absent or of the wrong
\* type ({"*"}: the body is not a JSON object), the rest are the values it carries
Body(missing, invoiceID, sender, paymentStatus, amount) ==
    [missing |-> missing, invoiceID |-> invoiceID, sender |-> sender,
     paymentStatus |-> paymentStatus, amount |-> amount]

\* the MD5 of invoice_id, amount (two decimals), payment_status and the secret written
\* one after the other; the digest is taken to differ whenever one of the four differs
Signature(invoiceID, amount, paymentStatus, password) ==
    <<invoiceID, amount, paymentStatus, password>>

\* (mutant) any header that is present passes
VerifyWebhookSignatureAny(body, signature) == TRUE

\* QPayService.VerifyWebhookSignature
VerifyWebhookSignature(body, signature) ==
    /\ body.missing \cap {"*", "invoice_id", "amount", "payment_status"} = {}
    /\ Signature(body.invoiceID, body.amount, body.paymentStatus, Password) = signature

\* (mutant) only the fields the order flow reads are required
ParseWebhookDataLenient(body) ==
    body.missing \cap {"*", "sender_invoice_no", "payment_status"} = {}

\* QPayService.ParseWebhookData: TRUE when every field is present with its type
ParseWebhookData(body) == body.missing = {}

\* HandleQPayWebhook lines 37-63: the response that ends the request before the order
\* service is called ("" when it is called); header is Nil when X-QPay-Signature is
\* absent or empty
Rejection(body, header) ==
    IF "*" \in body.missing THEN "bad request"
    ELSE IF ~IsNil(header) /\ ~VerifyWebhookSignature(body, Deref(header)) THEN "unauthorized"
    ELSE IF ~ParseWebhookData(body) THEN "bad request"
    ELSE ""

\* the HTTP status HandleQPayWebhook answers with, from how the handling ended
StatusCode(ret) ==
    CASE ret = "ok" -> 200
      [] ret = "bad request" -> 400
      [] ret = "unauthorized" -> 401
      [] ret = "error" -> 500
      [] OTHER -> 0

\* HandleQPayWebhook lines 37-63, the request is answered 400 or 401
WebhookRejected(w, body, header) ==
    /\ Rejection(body, header) # ""
    /\ handlers[w].pc = "idle"
    /\ \A v \in Workers : v < w => handlers[v].pc # "idle"
    /\ delivered < MaxDeliveries
    /\ delivered' = delivered + 1
    /\ handlers' = [handlers EXCEPT ![w] =
          [@ EXCEPT !.pc = "done", !.ret = Rejection(body, header),
                    !.body = Ptr(body), !.signature = header]]
    /\ UNCHANGED <<orders, transactions, packagePrices, rates, now, provCalls, reply, mails, adapter,
                   users, registers>>

\* lines 294-299: look the order up by the webhook's sender_invoice_no; body and header
\* are what the handler let pass
WebhookFindOrder(w, body, header) ==
    LET oid == FindOrder(orders, body.sender)
        parsed == [handlers[w] EXCEPT !.sender = body.sender,
                                      !.paymentStatus = body.paymentStatus,
                                      !.amount = body.amount, !.body = Ptr(body),
                                      !.signature = header]
    IN  /\ handlers[w].pc = "idle"
        /\ \A v \in Workers : v < w => handlers[v].pc # "idle"
        /\ delivered < MaxDeliveries
        /\ delivered' = delivered + 1
        /\ handlers' = [handlers EXCEPT ![w] =
              IF oid = 0
              THEN [parsed EXCEPT !.pc = "done", !.ret = "error"]
              ELSE [parsed EXCEPT !.pc = "found", !.order = oid,
                                  !.found = Ptr(Found(oid))]]
        /\ UNCHANGED <<orders, transactions, packagePrices, rates, now, provCalls, reply, mails, adapter,
                   users, registers>>

\* lines 301-303: write the mapped status
WebhookUpdateStatus(w) ==
    LET h == handlers[w]
    IN  /\ h.pc = "found"
        /\ orders' = [orders EXCEPT ![h.order] =
                        UpdateStatus(@, GetPaymentStatus(h.paymentStatus))]
        /\ handlers' = [handlers EXCEPT ![w].pc = "status"]
        /\ UNCHANGED <<transactions, packagePrices, rates, now, provCalls, delivered, reply, mails, adapter,
                   users, registers>>

\* line 307: read the order's payment transaction
WebhookFindTransaction(w) ==
    LET h == handlers[w]
    IN  /\ h.pc = "status"
        /\ handlers' = [handlers EXCEPT ![w].pc = "txread",
                                        ![w].tx = FirstTransaction(transactions, h.order)]
        /\ UNCHANGED <<orders, transactions, packagePrices, rates, now, provCalls,
                       delivered, reply, mails, adapter, users, registers>>

\* lines 308-344: insert or save the transaction, then provision or return
WebhookSaveTransaction(w) ==
    LET h == handlers[w]
    IN  /\ h.pc = "txread"
        /\ transactions' =
             IF h.tx = 0
             THEN Append(transactions, NewWebhookTransaction(h.order, h))
             ELSE [transactions EXCEPT ![h.tx] = UpdatedTransaction(@, h)]
        /\ handlers' = [handlers EXCEPT ![w] =
              IF ShouldProvision(GetPaymentStatus(h.paymentStatus))
              THEN [@ EXCEPT !.pc = "paid"]
              ELSE [@ EXCEPT !.pc = "done", !.ret = "ok"]]
        /\ UNCHANGED <<orders, packagePrices, rates, now, provCalls, delivered, reply, mails, adapter,
                   users, registers>>

\* createESIMOrder lines 347-370: the call of RoamWiFiService.CreateOrder;
\* outcome: "error", or the partner's order id
createESIMOrderCall(w, outcome) ==
    LET h == handlers[w]
    IN  /\ h.pc = "paid"
        /\ provCalls' = [provCalls EXCEPT ![h.order] = @ + 1]
        /\ handlers' = [handlers EXCEPT ![w].pc = "called", ![w].calls = @ + 1,
                                        ![w].result = outcome]
        /\ UNCHANGED <<orders, transactions, packagePrices, rates, now, delivered, reply, mails, adapter,
                   users, registers>>

\* the goroutine createESIMOrder starts for the delivery e-mail of an order (the
\* customer e-mail is a required field of the order request, so it is never empty)
NewMail(oid, partnerOrderID) == [order |-> oid, orderID |-> partnerOrderID, state |-> "sending"]

\* (mutant) a failed e-mail marks the order failed
SendPDFEmailFailureRecorded(os, mail, ok) ==
    IF ok THEN os ELSE [os EXCEPT ![mail.order] = UpdateStatus(@, "failed")]

\* what the e-mail goroutine does to the orders when SendPDFEmail has returned: the
\* result is dropped
SendPDFEmailReturned(os, mail, ok) == os

\* the e-mail goroutine ends: RoamWiFiService.SendPDFEmail returned nil (ok) or an error
SendPDFEmail(m, ok) ==
    /\ mails[m].state = "sending"
    /\ mails' = [mails EXCEPT ![m].state = IF ok THEN "sent" ELSE "failed"]
    /\ orders' = SendPDFEmailReturned(orders, mails[m], ok)
    /\ UNCHANGED <<transactions, packagePrices, rates, now, handlers, provCalls, delivered,
                   reply, adapter, users, registers>>

DoSendPDFEmail == \E m \in 1..Len(mails), ok \in BOOLEAN : SendPDFEmail(m, ok)

\* createESIMOrder lines 371-398: persist the outcome and start the e-mail goroutine
createESIMOrderSave(w) ==
    LET h == handlers[w]
    IN  /\ h.pc = "called"
        /\ orders' = [orders EXCEPT ![h.order] =
              IF h.result = "error" THEN ProvisioningFailed(@)
              ELSE ProvisioningCompleted(@, h.result)]
        /\ mails' = IF h.result = "error" THEN mails
                     ELSE Append(mails, NewMail(h.order, h.result))
        /\ handlers' = [handlers EXCEPT ![w].pc = "done",
                           ![w].ret = IF h.result = "error" THEN "error" ELSE "ok"]
        /\ UNCHANGED <<transactions, packagePrices, rates, now, provCalls, delivered, reply,
                       adapter, users, registers>>

\* the handler returns; the worker is free for the next delivery
WebhookReturn(w) ==
    /\ handlers[w].pc = "done"
    /\ handlers' = [handlers EXCEPT ![w] = IdleHandler]
    /\ UNCHANGED <<orders, transactions, packagePrices, rates, now, provCalls,
                   delivered, reply, mails, adapter, users, registers>>

\* WebhookHandler.HandleQPayWebhook up to the order lookup
HandleQPayWebhook(w, body, header) ==
    \/ WebhookRejected(w, body, header)
    \/ /\ Rejection(body, header) = ""
       /\ WebhookFindOrder(w, body, header)

\* complete bodies with the given payment statuses
WellFormedBodies(statuses) ==
    {Body({}, i, sender, paymentStatus, amount) :
        i \in WebhookInvoiceIds, sender \in SenderNumbers, paymentStatus \in statuses,
        amount \in WebhookAmounts}

\* a PAID confirmation of the first order that is not a JSON object or lacks one field
MalformedBodies ==
    {Body(m, "INV1", 1, "PAID", 414000000) : m \in {{"*"}} \cup {{f} : f \in WebhookFields}}

\* X-QPay-Signature values a sender may attach to a body: the signature of that body,
\* of the same body with another payment status, or made with another secret
Headers(body) ==
    {Ptr(Signature(body.invoiceID, body.amount, st, p)) :
        st \in {body.paymentStatus, "PENDING"}, p \in Secrets}

\* deliveries of complete bodies without signature header
DoWebhookFindOrder(w, statuses) ==
    \E body \in WellFormedBodies(statuses) : HandleQPayWebhook(w, body, Nil)

\* deliveries of any body with any header
DoHandleQPayWebhook(w, statuses) ==
    \E body \in WellFormedBodies(statuses) \cup MalformedBodies :
        \E header \in {Nil} \cup Headers(body) : HandleQPayWebhook(w, body, header)

DocreateESIMOrderCall(w) ==
    \E outcome \in {"error"} \cup PartnerOrderIds : createESIMOrderCall(w, outcome)

WebhookStep(w) ==
    \/ WebhookUpdateStatus(w)
    \/ WebhookFindTransaction(w)
    \/ WebhookSaveTransaction(w)
    \/ DocreateESIMOrderCall(w)
    \/ createESIMOrderSave(w)
    \/ WebhookReturn(w)

\* ------------------------------------------------------ package pricing
\* raw * (1 + markup/100), in cents
WithMarkup(raw, markup) == (raw * (100 + markup)) \div 100

\* the tail shared by SetPackageMarkup and SetPackageOverride: the rate resolver never
\* returns an error, so the rate and the MNT price are always rewritten
WithRate(pp, rate) ==
    [pp EXCEPT !.exchangeRate = Ptr(rate), !.effectivePriceMNT = Ptr(pp.effectivePriceUSD * rate)]

\* (mutant) the markup is stored and the price recomputed, the override is kept
MarkupSetKeepingOverride(pp, markup) ==
    [pp EXCEPT !.markupPercent = Ptr(markup),
               !.effectivePriceUSD = WithMarkup(pp.rawProviderPrice, markup),
               !.priceSource = "markup"]

\* SetPackageMarkup: the markup is stored, the override cleared, the price recomputed
MarkupSet(pp, markup) ==
    [pp EXCEPT !.markupPercent = Ptr(markup), !.overridePriceUSD = Nil,
               !.effectivePriceUSD = WithMarkup(pp.rawProviderPrice, markup),
               !.priceSource = "markup"]

\* what an admin pricing call was asked: the row's provider price id, the value sent
\* (a pointer) and the row as the call read it (nil when there is none)
PricingRequest(providerPriceID, value) ==
    [providerPriceID |-> providerPriceID, value |-> value,
     found |-> IF providerPriceID \in DOMAIN packagePrices
               THEN Ptr(packagePrices[providerPriceID]) ELSE Nil]

\* ProductService.SetPackageMarkup
SetPackageMarkup(providerPriceID, markup, fetch) ==
    /\ IF providerPriceID \notin DOMAIN packagePrices
       THEN /\ reply' = Asked(PricingRequest(providerPriceID, Ptr(markup)),
                              Replied("SetPackageMarkup", "record not found", "", ""))
            /\ UNCHANGED <<packagePrices, rates>>
       ELSE LET r == GetUSDToMNTRate(rates, now, fetch)
                pp == MarkupSet(packagePrices[providerPriceID], markup)
            IN  /\ packagePrices' = [packagePrices EXCEPT ![providerPriceID] = WithRate(pp, r.rate)]
                /\ rates' = r.rates
                /\ reply' = Asked(PricingRequest(providerPriceID, Ptr(markup)),
                                  Replied("SetPackageMarkup", "", "", ""))
    /\ UNCHANGED <<orders, transactions, now, handlers, provCalls, delivered, mails, adapter,
                   users, registers>>

\* (mutant) every markup percent is accepted
MarkupAny(markup) == TRUE

\* the range the admin endpoint enforces on markup_percent
MarkupInRange(markup) == markup >= 0 /\ markup <= MaxMarkupPercent

\* the bodies of PUT /admin/packages/{priceId}/markup: markup_percent absent or a number
MarkupRequests == {Nil} \cup {Ptr(m) : m \in Markups}

\* AdminHandler.UpdatePackageMarkup; markupPercent is a pointer
UpdatePackageMarkup(priceID, markupPercent, fetch) ==
    IF IsNil(markupPercent) \/ ~MarkupInRange(Deref(markupPercent))
    THEN /\ reply' = Asked(PricingRequest(priceID, markupPercent),
                           Replied("UpdatePackageMarkup",
                                   IF IsNil(markupPercent) THEN "markup_percent required"
                                   ELSE "markup_percent out of range", "", ""))
         /\ UNCHANGED <<orders, transactions, packagePrices, rates, now, handlers,
                        provCalls, delivered, mails, adapter, users, registers>>
    ELSE SetPackageMarkup(priceID, Deref(markupPercent), fetch)

\* (mutant) clearing the override always falls back to the raw price
OverrideClearedToBase(pp) ==
    [pp EXCEPT !.overridePriceUSD = Nil, !.effectivePriceUSD = pp.rawProviderPrice,
               !.priceSource = "base"]

\* SetPackageOverride, override == nil: fall back to the stored markup, else to the raw price
OverrideCleared(pp) ==
    IF ~IsNil(pp.markupPercent)
    THEN [pp EXCEPT !.overridePriceUSD = Nil,
                    !.effectivePriceUSD = WithMarkup(pp.rawProviderPrice, Deref(pp.markupPercent)),
                    !.priceSource = "markup"]
    ELSE [pp EXCEPT !.overridePriceUSD = Nil, !.effectivePriceUSD = pp.rawProviderPrice,
                    !.priceSource = "base"]

\* SetPackageOverride, override > 0
OverrideSet(pp, override) ==
    [pp EXCEPT !.overridePriceUSD = Ptr(override), !.effectivePriceUSD = override,
               !.priceSource = "override"]

\* ProductService.SetPackageOverride; override is a pointer
SetPackageOverride(providerPriceID, override, fetch) ==
    /\ IF \/ providerPriceID \notin DOMAIN packagePrices
          \/ ~IsNil(override) /\ Deref(override) <= 0
       THEN /\ reply' = Asked(PricingRequest(providerPriceID, override),
                              Replied("SetPackageOverride",
                                      IF providerPriceID \notin DOMAIN packagePrices
                                      THEN "record not found" ELSE "override must be > 0",
                                      "", ""))
            /\ UNCHANGED <<packagePrices, rates>>
       ELSE LET r == GetUSDToMNTRate(rates, now, fetch)
                pp == IF IsNil(override) THEN OverrideCleared(packagePrices[providerPriceID])
                      ELSE OverrideSet(packagePrices[providerPriceID], Deref(override))
            IN  /\ packagePrices' = [packagePrices EXCEPT ![providerPriceID] = WithRate(pp, r.rate)]
                /\ rates' = r.rates
                /\ reply' = Asked(PricingRequest(providerPriceID, override),
                                  Replied("SetPackageOverride", "", "", ""))
    /\ UNCHANGED <<orders, transactions, now, handlers, provCalls, delivered, mails, adapter,
                   users, registers>>

\* (mutant) the provider's price is stored, the effective price is left as it was
ResyncedStale(pp, sku, price, rate) ==
    [pp EXCEPT !.skuID = sku, !.rawProviderPrice = price, !.exchangeRate = Ptr(rate),
               !.active = TRUE]

\* SyncPackagePrices, existing row: the provider's price replaces the raw price and the
\* effective price is recomputed by precedence
Resynced(pp, sku, price, rate) ==
    LET e == IF ~IsNil(pp.overridePriceUSD) THEN Deref(pp.overridePriceUSD)
             ELSE IF ~IsNil(pp.markupPercent) THEN WithMarkup(price, Deref(pp.markupPercent))
             ELSE price
        src == IF ~IsNil(pp.overridePriceUSD) THEN "override"
               ELSE IF ~IsNil(pp.markupPercent) THEN "markup" ELSE "base"
    IN  [pp EXCEPT !.skuID = sku, !.rawProviderPrice = price, !.effectivePriceUSD = e,
                   !.priceSource = src, !.exchangeRate = Ptr(rate),
                   !.effectivePriceMNT = IF rate > 0 THEN Ptr(e * rate) ELSE @,
                   !.active = TRUE]

\* ProductService.SyncPackagePrices for a SKU whose provider list holds one package
\* (priceID at price); detailed = FALSE: GetPackagesDetailed failed
SyncPackagePrices(skuID, detailed, priceID, price, fetch) ==
    /\ IF ~detailed
       THEN /\ reply' = Replied("SyncPackagePrices", "fetch detailed packages", "", "")
            /\ UNCHANGED <<packagePrices, rates>>
       ELSE LET r == GetUSDToMNTRate(rates, now, fetch)
                upserted ==
                    IF priceID \in DOMAIN packagePrices
                    THEN [packagePrices EXCEPT ![priceID] = Resynced(@, skuID, price, r.rate)]
                    ELSE [id \in DOMAIN packagePrices \cup {priceID} |->
                            IF id = priceID THEN NewPackagePrice(skuID, price, r.rate)
                            ELSE packagePrices[id]]
            IN  /\ packagePrices' =
                      [id \in DOMAIN upserted |->
                          IF upserted[id].skuID = skuID /\ id # priceID
                          THEN [upserted[id] EXCEPT !.active = FALSE]
                          ELSE upserted[id]]
                /\ rates' = r.rates
                /\ reply' = Replied("SyncPackagePrices", "", "", "")
    /\ UNCHANGED <<orders, transactions, now, handlers, provCalls, delivered, mails, adapter,
                   users, registers>>

\* PricingService.SetManualExchangeRate
SetManualExchangeRate(rate) ==
    /\ Len(rates) < MaxRates
    /\ rates' = CreateRate(rates, [rate |-> rate, source |-> "manual", lastUpdated |-> now])
    /\ reply' = Replied("SetManualExchangeRate", "", "", "")
    /\ UNCHANGED <<orders, transactions, packagePrices, now, handlers, provCalls, delivered,
                   mails, adapter, users, registers>>

\* AdminHandler.GetPricingInfo: answers the rate GetUSDToMNTRate resolves
GetPricingInfo(fetch) ==
    LET r == GetUSDToMNTRate(rates, now, fetch)
    IN  /\ rates' = r.rates
        /\ reply' = Answered([rate |-> r.rate, fetched |-> r.fetched],
                             Asked([fetch |-> fetch], Replied("GetPricingInfo", "", "", "")))
        /\ UNCHANGED <<orders, transactions, packagePrices, now, handlers, provCalls,
                       delivered, mails, adapter, users, registers>>

DoGetPricingInfo == \E fetch \in FetchOutcomes(rates) : GetPricingInfo(fetch)

\* twelve hours pass
Tick ==
    /\ now < MaxTime
    /\ now' = now + 1
    /\ UNCHANGED <<orders, transactions, packagePrices, rates, handlers, provCalls,
                   delivered, reply, mails, adapter, users, registers>>

DoSetPackageMarkup ==
    \E id \in AdminPriceIds, req \in MarkupRequests, fetch \in FetchOutcomes(rates) :
        UpdatePackageMarkup(id, req, fetch)

DoSetPackageOverride ==
    \E id \in AdminPriceIds, override \in Overrides, fetch \in FetchOutcomes(rates) :
        SetPackageOverride(id, override, fetch)

DoSyncPackagePrices ==
    \E sku \in AdminSkus, detailed \in BOOLEAN, price \in RawPrices,
       fetch \in FetchOutcomes(rates) :
        SyncPackagePrices(sku, detailed, 1, price, fetch)

DoSetManualExchangeRate == \E rate \in ManualRates : SetManualExchangeRate(rate)

\* the HTTP handler writes the response of the call that just ended
Respond ==
    /\ reply # NoReply
    /\ reply' = NoReply
    /\ UNCHANGED <<orders, transactions, packagePrices, rates, now, handlers, provCalls,
                   delivered, mails, adapter, users, registers>>

\* the last call's response has been written
Returned == reply = NoReply

\* ------------------------------------------------------ specifications
\* the order pipeline with concurrent webhook deliveries
Next ==
    \/ Returned /\ DoCreateOrderOf(PlainRequests)
    \/ Returned /\ DoInitiatePayment
    \/ Returned /\ \E w \in Workers : DoWebhookFindOrder(w, QPayStatuses)
    \/ Returned /\ \E w \in Workers : WebhookStep(w)
    \/ Respond

Spec == Init /\ [][Next]_vars

\* the same operations, one request at a time
Quiet == Returned /\ \A w \in Workers : handlers[w].pc = "idle"

NextSeq ==
    \/ Quiet /\ DoCreateOrder
    \/ Quiet /\ DoInitiatePayment
    \/ Quiet /\ \E w \in Workers : DoHandleQPayWebhook(w, QPayStatuses)
    \/ \E w \in Workers : WebhookStep(w)
    \/ Respond

SpecSeq == Init /\ [][NextSeq]_vars

\* one request at a time, with the admin's pricing operations; the deliveries
\* are payment confirmations
NextPricing ==
    \/ Quiet /\ DoCreateOrder
    \/ Quiet /\ DoInitiatePayment
    \/ Quiet /\ \E w \in Workers : DoWebhookFindOrder(w, {"PAID"})
    \/ \E w \in Workers : WebhookStep(w)
    \/ Quiet /\ DoSetPackageMarkup
    \/ Quiet /\ DoSetPackageOverride
    \/ Quiet /\ DoSyncPackagePrices
    \/ Quiet /\ DoSetManualExchangeRate
    \/ Respond

SpecPricing == Init /\ [][NextPricing]_vars

\* ------------------------------------------------ provisioning adapter
\* The signed operations of RoamWiFiService, each running on the goroutine of the
\* request that called it; the adapter and its token field are shared by all of them.
\* r.token is read and written without synchronisation: a read that races with a login
\* sees the token of before or of after it, which the interleaving of the login and
\* send steps covers.
AdapterOps == {"CreateOrder", "GetSKUList", "GetPackagesBySKU"}

\* (mutant) a login is made only while the adapter holds no token
LoginIfNoToken(a) == a.token = 0

\* ensureAuthenticated: "always force a fresh login"
MustLogin(a) == TRUE

\* an operation is called; before: the tokens issued so far (used by the properties)
AdapterCall(w, op) ==
    /\ adapter.ops[w].pc = "idle"
    /\ adapter' = [adapter EXCEPT !.ops[w] =
                      [IdleOp EXCEPT !.pc = "login", !.op = op, !.before = adapter.issued]]
    /\ UNCHANGED <<orders, transactions, packagePrices, rates, now, handlers, provCalls,
                   delivered, reply, mails, users, registers>>

\* ensureAuthenticated / login: on success the partner issues a new token, which is
\* stored in r.token; on failure the operation returns "authentication failed"
ensureAuthenticated(w, ok) ==
    /\ adapter.ops[w].pc = "login"
    /\ adapter' =
          IF ~MustLogin(adapter)
          THEN [adapter EXCEPT !.ops[w].pc = "authenticated"]
          ELSE IF ok
          THEN [adapter EXCEPT !.issued = @ + 1, !.token = adapter.issued + 1,
                               !.ops[w].pc = "authenticated",
                               !.ops[w].own = adapter.issued + 1]
          ELSE [adapter EXCEPT !.ops[w].pc = "done", !.ops[w].err = TRUE]
    /\ UNCHANGED <<orders, transactions, packagePrices, rates, now, handlers, provCalls,
                   delivered, reply, mails, users, registers>>

\* fmt.Sprintf("%.0f", v) of a number given in tenths: rounded to the nearest integer,
\* halves to the even one; a negative number that rounds to zero prints as "-0"
FormatCode(tenths) ==
    LET q == tenths \div 10
        rem == tenths % 10
        n == IF rem < 5 THEN q
             ELSE IF rem > 5 THEN q + 1
             ELSE IF q % 2 = 0 THEN q ELSE q + 1
    IN  IF n = 0 /\ tenths < 0 THEN "-0" ELSE ToString(n)

\* lines 863-869: the "code" member as a string; "" when it is missing or is neither a
\* JSON number nor a JSON string
CodeStr(code) ==
    CASE code.type = "number" -> FormatCode(code.tenths)
      [] code.type = "string" -> code.text
      [] OTHER -> ""

\* data["order_id"], else data["orderId"], when it is a string; "" otherwise
OrderIDOf(data) ==
    IF ~IsNil(data.order_id) THEN Deref(data.order_id)
    ELSE IF ~IsNil(data.orderId) THEN Deref(data.orderId)
    ELSE ""

\* what RoamWiFiService.CreateOrder returns for a decoded partner response (lines
\* 863-901): err is "" for a nil error, message the partner message the error carries
CreateOrderResult(resp) ==
    IF CodeStr(resp.code) \notin {"0", "200"}
    THEN [err |-> IF ~IsNil(resp.message) THEN "API error" ELSE "API error code",
          message |-> resp.message, orderID |-> "", esimData |-> Nil]
    ELSE IF IsNil(resp.data)
    THEN [err |-> "missing data field", message |-> Nil, orderID |-> "", esimData |-> Nil]
    ELSE [err |-> "", message |-> Nil, orderID |-> OrderIDOf(Deref(resp.data)),
          esimData |-> Deref(resp.data).esim_data]

\* the "code" member of a partner response: a JSON number (in tenths), a JSON string,
\* absent, or of another JSON type
PartnerCodes ==
    {[type |-> "number", tenths |-> n, text |-> ""] : n \in {0, 2000, 2004, 5, 5000}}
      \cup {[type |-> "string", tenths |-> 0, text |-> t] : t \in {"0", "200", "500"}}
      \cup {[type |-> t, tenths |-> 0, text |-> ""] : t \in {"missing", "bool"}}

\* the "data" member when it is a JSON object: the members CreateOrder reads, each Nil
\* unless present with the type CreateOrder expects
PartnerData ==
    {[order_id |-> Nil, orderId |-> Nil, esim_data |-> Nil],
     [order_id |-> Ptr("RW1"), orderId |-> Nil, esim_data |-> Ptr("LPA")],
     [order_id |-> Nil, orderId |-> Ptr("RW2"), esim_data |-> Nil]}

\* the JSON objects the partner may answer createOrder with; message and data are Nil
\* when absent or not a string / an object
PartnerResponses ==
    [code : PartnerCodes, message : {Nil, Ptr("sku sold out")},
     data : {Nil} \cup {Ptr(d) : d \in PartnerData}]

\* the operation builds its parameters with "token": r.token and sends the request
AdapterSend(w) ==
    /\ adapter.ops[w].pc = "authenticated"
    /\ adapter' = [adapter EXCEPT !.ops[w].pc = "done", !.ops[w].sent = adapter.token]
    /\ UNCHANGED <<orders, transactions, packagePrices, rates, now, handlers, provCalls,
                   delivered, reply, mails, users, registers>>

\* the operation returns to its caller
AdapterReturn(w) ==
    /\ adapter.ops[w].pc = "done"
    /\ adapter' = [adapter EXCEPT !.ops[w] = IdleOp]
    /\ UNCHANGED <<orders, transactions, packagePrices, rates, now, handlers, provCalls,
                   delivered, reply, mails, users, registers>>

\* the partner answers a login with a token (while the model has serial numbers left)
\* or refuses it
LoginOutcomes == {FALSE} \cup (IF adapter.issued < MaxLogins THEN {TRUE} ELSE {})

NextAdapter ==
    \/ \E w \in Workers, op \in AdapterOps : AdapterCall(w, op)
    \/ \E w \in Workers, ok \in LoginOutcomes : ensureAuthenticated(w, ok)
    \/ \E w \in Workers : AdapterSend(w)
    \/ \E w \in Workers : AdapterReturn(w)

SpecAdapter == Init /\ [][NextAdapter]_vars

\* lines 858-901 of CreateOrder on a goroutine: the partner's answer is decoded into the
\* result the operation returns
DecodeCreateOrder(w, resp) ==
    /\ adapter.ops[w].pc = "idle"
    /\ adapter' = [adapter EXCEPT !.ops[w] =
          [IdleOp EXCEPT !.pc = "done", !.op = "CreateOrder", !.resp = Ptr(resp),
                         !.result = Ptr(CreateOrderResult(resp))]]
    /\ UNCHANGED <<orders, transactions, packagePrices, rates, now, handlers, provCalls,
                   delivered, reply, mails, users, registers>>

NextDecode ==
    \/ \E w \in Workers, resp \in PartnerResponses : DecodeCreateOrder(w, resp)
    \/ \E w \in Workers : AdapterReturn(w)

SpecDecode == Init /\ [][NextDecode]_vars

\* --------------------------------------------------- custom order prices
\* order requests for the first package that carry custom_price_usd: absent, positive,
\* zero or negative (the handler and the service pass the value on unchecked)
CustomPriceRequests ==
    [productID : {"P1"}, packagePriceID : {Ptr(1)}, providerPriceID : {Nil},
     customPriceUSD : {Nil, Ptr(500), Ptr(0), Ptr(-500)}]

\* orders at a custom price, re-issued invoices and manual rates, one call at a time
NextCustom ==
    \/ Returned /\ DoCreateOrderOf(CustomPriceRequests)
    \/ Returned /\ DoInitiatePayment
    \/ Returned /\ DoSetManualExchangeRate
    \/ Respond

SpecCustom == Init /\ [][NextCustom]_vars

\* ------------------------------------------- provisioning from the answer
\* what createESIMOrder gets from RoamWiFiService.CreateOrder for a partner response:
\* "error", or the OrderID of the response object (which is "" when the data object
\* carries no order id string)
ProvisioningOutcome(resp) ==
    LET r == CreateOrderResult(resp)
    IN  IF r.err # "" THEN "error" ELSE r.orderID

\* createESIMOrder's adapter call, its outcome decoded from the partner's response
DoProvision(w) ==
    \E resp \in PartnerResponses : createESIMOrderCall(w, ProvisioningOutcome(resp))

\* orders, confirmations of payment one at a time, the partner answering freely
NextProvision ==
    \/ Quiet /\ DoCreateOrderOf(PlainRequests)
    \/ Quiet /\ \E w \in Workers : DoWebhookFindOrder(w, {"PAID", "FAILED"})
    \/ \E w \in Workers : WebhookUpdateStatus(w)
    \/ \E w \in Workers : WebhookFindTransaction(w)
    \/ \E w \in Workers : WebhookSaveTransaction(w)
    \/ \E w \in Workers : DoProvision(w)
    \/ \E w \in Workers : createESIMOrderSave(w)
    \/ \E w \in Workers : WebhookReturn(w)
    \/ Respond

SpecProvision == Init /\ [][NextProvision]_vars

\* --------------------------------------------------------- registration
\* AuthHandler.Register, one request per goroutine; the lookup of the e-mail and the
\* insert of the user are separate database statements.
RegisterEmails == {"a@x.mn", "b@x.mn", "a.x.mn"}

RegisterPasswords == {"12345", "123456"}

\* the bodies of POST /auth/register
RegisterRequests == [email : RegisterEmails, password : RegisterPasswords]

\* binding "email": the strings of RegisterEmails that are e-mail addresses
IsEmail(email) == email \in {"a@x.mn", "b@x.mn"}

\* ShouldBindJSON(&req): email required and an e-mail address, password of 6 characters
\* or more
Binds(req) == IsEmail(req.email) /\ Len(req.password) >= 6

\* DB.Where("email = ?", email).First(&existingUser) finds a row
UserExists(us, email) == \E i \in 1..Len(us) : us[i].email = email

\* (mutant) the insert is accepted whatever the e-mail
EmailUnchecked(us, email) == TRUE

\* the unique index on users.email accepts the insert of a row with this e-mail
EmailFree(us, email) == \A i \in 1..Len(us) : us[i].email # email

\* the users row Register inserts
NewUser(req) == [email |-> req.email, isAdmin |-> FALSE]

\* lines 63-74: bind the body, then look the e-mail up
RegisterCheck(w, req) ==
    /\ registers[w].pc = "idle"
    /\ Len(users) < MaxUsers
    /\ registers' = [registers EXCEPT ![w] =
          IF ~Binds(req)
          THEN [IdleRegister EXCEPT !.pc = "done", !.req = Ptr(req), !.status = 400]
          ELSE IF UserExists(users, req.email)
          THEN [IdleRegister EXCEPT !.pc = "done", !.req = Ptr(req), !.found = TRUE,
                                    !.status = 409]
          ELSE [IdleRegister EXCEPT !.pc = "checked", !.req = Ptr(req)]]
    /\ UNCHANGED <<orders, transactions, packagePrices, rates, now, handlers, provCalls,
                   delivered, reply, mails, adapter, users>>

\* lines 76-109: hash the password (hashed: bcrypt returned no error), insert the user,
\* sign the tokens and answer
RegisterCreate(w, hashed) ==
    LET req == Deref(registers[w].req)
        free == EmailFree(users, req.email)
    IN  /\ registers[w].pc = "checked"
        /\ IF hashed /\ free
           THEN /\ users' = Append(users, NewUser(req))
                /\ registers' = [registers EXCEPT ![w].pc = "done", ![w].hashed = TRUE,
                                                  ![w].free = TRUE,
                                                  ![w].inserted = Len(users) + 1,
                                                  ![w].status = 201]
           ELSE /\ registers' = [registers EXCEPT ![w].pc = "done", ![w].hashed = hashed,
                                                  ![w].free = hashed /\ free,
                                                  ![w].status = 500]
                /\ UNCHANGED users
        /\ UNCHANGED <<orders, transactions, packagePrices, rates, now, handlers, provCalls,
                       delivered, reply, mails, adapter>>

\* the handler returns
RegisterReturn(w) ==
    /\ registers[w].pc = "done"
    /\ registers' = [registers EXCEPT ![w] = IdleRegister]
    /\ UNCHANGED <<orders, transactions, packagePrices, rates, now, handlers, provCalls,
                   delivered, reply, mails, adapter, users>>

NextAuth ==
    \/ \E w \in Workers, req \in RegisterRequests : RegisterCheck(w, req)
    \/ \E w \in Workers, hashed \in BOOLEAN : RegisterCreate(w, hashed)
    \/ \E w \in Workers : RegisterReturn(w)

SpecAuth == Init /\ [][NextAuth]_vars

\* ---------------------------------------------------- request signature
\* the parameter names of the signed calls, in the byte order sort.Strings puts them in
\* (upper case letters come before "_" and the lower case letters)
ParamKeys == <<"sign", "skuId", "sku_id", "token">>

\* the values a parameter may carry
ParamValues(key) == IF key = "token" THEN {"T1"} ELSE {"1"}

\* the parameter maps (map[string]string) over those names
ParamMaps ==
    UNION {{m \in [keys -> {"1", "T1"}] : \A k \in keys : m[k] \in ParamValues(k)} :
              keys \in SUBSET {ParamKeys[i] : i \in 1..Len(ParamKeys)}}

\* the orders in which a range statement may visit the keys of a map
RangeOrders(m) ==
    {o \in [1..Cardinality(DOMAIN m) -> DOMAIN m] : \A i, j \in DOMAIN o : i # j => o[i] # o[j]}

\* a < b in the order of sort.Strings
Less(a, b) ==
    \E i, j \in 1..Len(ParamKeys) : ParamKeys[i] = a /\ ParamKeys[j] = b /\ i < j

RECURSIVE Insert(_, _)
\* key put at its place in the sorted sequence keys
Insert(keys, key) ==
    IF keys = <<>> THEN <<key>>
    ELSE IF Less(key, Head(keys)) THEN <<key>> \o keys
    ELSE <<Head(keys)>> \o Insert(Tail(keys), key)

RECURSIVE SortStringsFrom(_, _)
SortStringsFrom(sorted, keys) ==
    IF keys = <<>> THEN sorted ELSE SortStringsFrom(Insert(sorted, Head(keys)), Tail(keys))

\* (mutant) the keys are left in the order the map was ranged over
SortStringsSkipped(keys) == keys

\* sort.Strings(keys)
SortStrings(keys) == SortStringsFrom(<<>>, keys)

RECURSIVE Join(_, _)
\* strings.Join(arrayList, "") of the key=value entries of keys
Join(keys, data) ==
    IF keys = <<>> THEN "" ELSE Head(keys) \o "=" \o data[Head(keys)] \o Join(Tail(keys), data)

\* the shared secret appended to the signed string
signKey == "ro@mw1f1-bpm-ap1"

\* hex.EncodeToString(md5.Sum(content)): digests are taken to differ whenever the
\* contents differ
MD5Hex(content) == <<"md5", content>>

\* RoamWiFiService.generateSignature; order is the order in which the keys of the copy
\* without "sign" are ranged over
generateSignature(params, order) ==
    LET data == [k \in DOMAIN params \ {"sign"} |-> params[k]]
        keys == SelectSeq(order, LAMBDA k : k # "sign")
    IN  MD5Hex(Join(SortStrings(keys), data) \o signKey)

\* a goroutine signs a parameter map
Sign(w, params, order) ==
    /\ adapter.ops[w].pc = "idle"
    /\ adapter' = [adapter EXCEPT !.ops[w] =
          [IdleOp EXCEPT !.pc = "done", !.op = "generateSignature",
                         !.resp = Ptr([params |-> params, order |-> order]),
                         !.result = Ptr(generateSignature(params, order))]]
    /\ UNCHANGED <<orders, transactions, packagePrices, rates, now, handlers, provCalls,
                   delivered, reply, mails, users, registers>>

NextSign ==
    \/ \E w \in Workers, params \in ParamMaps : \E order \in RangeOrders(params) :
          Sign(w, params, order)
    \/ \E w \in Workers : AdapterReturn(w)

SpecSign == Init /\ [][NextSign]_vars

\* one request at a time, the delivery e-mails running beside the requests
NextMail ==
    \/ NextSeq
    \/ DoSendPDFEmail

SpecMail == Init /\ [][NextMail]_vars

\* orders and prices set while the clock advances and cached rates go stale
NextClock ==
    \/ Returned /\ DoCreateOrder
    \/ Returned /\ DoSetPackageMarkup
    \/ Returned /\ DoSetPackageOverride
    \/ Returned /\ DoSyncPackagePrices
    \/ Returned /\ DoSetManualExchangeRate
    \/ Returned /\ DoGetPricingInfo
    \/ Returned /\ Tick
    \/ Respond

SpecClock == Init /\ [][NextClock]_vars

\* ------------------------------------------------------------ properties
H(w) == handlers[w]

OrderIds == 1..Len(orders)

OrderStatuses == {"pending", "paid", "processing", "completed", "failed", "cancelled"}

\* position of a status in pending -> paid -> processing -> completed, 0 outside it
StatusRank(s) ==
    CASE s = "pending" -> 1
      [] s = "paid" -> 2
      [] s = "processing" -> 3
      [] s = "completed" -> 4
      [] OTHER -> 0

\* a delivery of payment_status PAID for order oid that has been handled to its end
PaidDeliveryDone(w) ==
    /\ H(w).pc = "done"
    /\ H(w).order # 0
    /\ H(w).paymentStatus = "PAID"

\* C1: two PAID deliveries for one order that both found it pending (they overlapped)
\* issue exactly one RoamWiFiService.CreateOrder call between them.
C1_ExactlyOneProvisioningCall ==
    \A v, w \in Workers :
        (/\ v < w
         /\ PaidDeliveryDone(v) /\ PaidDeliveryDone(w)
         /\ H(v).order = H(w).order
         /\ Deref(H(v).found).status = "pending"
         /\ Deref(H(w).found).status = "pending")
        => H(v).calls + H(w).calls = 1

\* C2: a PAID delivery for an order found completed leaves its status, partner order id
\* and delivery artifact as found and issues no provisioning call, so the order has
\* been provisioned at most once.
C2_CompletedRedeliveryIsNoOp ==
    \A w \in Workers :
        (PaidDeliveryDone(w) /\ Deref(H(w).found).status = "completed")
        => /\ H(w).calls = 0
           /\ orders[H(w).order].status = "completed"
           /\ orders[H(w).order].roamwifiOrderID = Deref(H(w).found).roamwifiOrderID
           /\ orders[H(w).order].esimData = Deref(H(w).found).esimData
           /\ provCalls[H(w).order] <= 1

\* C3: a PAID delivery for an order found failed with its payment transaction paid
\* (payment confirmed, provisioning failed) issues no provisioning call.
C3_NoReprovisioningOfFailedOrder ==
    \A w \in Workers :
        (/\ H(w).pc # "idle"
         /\ H(w).order # 0
         /\ H(w).paymentStatus = "PAID"
         /\ Deref(H(w).found).status = "failed"
         /\ Deref(H(w).found).txStatus = "paid")
        => H(w).calls = 0

\* C4: when a PAID delivery for an order found pending ends with an adapter error, the
\* order is failed, its payment transaction is paid, the partner order id and the
\* delivery artifact are as found (unset when they were unset), and the handler
\* returned an error.
C4_ProvisioningFailureOutcome ==
    \A w \in Workers :
        (/\ PaidDeliveryDone(w)
         /\ Deref(H(w).found).status = "pending"
         /\ H(w).result = "error")
        => /\ orders[H(w).order].status = "failed"
           /\ \E t \in 1..Len(transactions) : transactions[t].orderID = H(w).order
           /\ \A t \in 1..Len(transactions) :
                transactions[t].orderID = H(w).order => transactions[t].status = "paid"
           /\ orders[H(w).order].roamwifiOrderID = Deref(H(w).found).roamwifiOrderID
           /\ orders[H(w).order].esimData = Deref(H(w).found).esimData
           /\ H(w).ret = "error"

C4_Witness ==
    \E w \in Workers :
        /\ PaidDeliveryDone(w)
        /\ Deref(H(w).found).status = "pending"
        /\ Deref(H(w).found).roamwifiOrderID = ""
        /\ H(w).result = "error"
        /\ orders[H(w).order].roamwifiOrderID = ""
        /\ orders[H(w).order].esimData = Nil

\* C5: no step moves an order's status backward along
\* pending -> paid -> processing -> completed.
C5_ForwardOnlyLifecycle ==
    [][\A i \in OrderIds :
          (StatusRank(orders[i].status) > 0 /\ StatusRank(orders'[i].status) > 0)
          => StatusRank(orders'[i].status) >= StatusRank(orders[i].status)]_vars

\* C6: no step changes the status, invoice id, partner order id or delivery artifact
\* of an order whose status is failed.
C6_FailedIsTerminal ==
    [][\A i \in OrderIds :
          orders[i].status = "failed"
          => /\ orders'[i].status = "failed"
             /\ orders'[i].qpayInvoiceID = orders[i].qpayInvoiceID
             /\ orders'[i].roamwifiOrderID = orders[i].roamwifiOrderID
             /\ orders'[i].esimData = orders[i].esimData]_vars

\* C7: every order's status is one of the six documented values.
C7_StatusDomain == \A i \in OrderIds : orders[i].status \in OrderStatuses

\* C8: no step changes the amount or the currency of an existing order.
C8_AmountAndCurrencyFixed ==
    [][\A i \in OrderIds :
          /\ orders'[i].amount = orders[i].amount
          /\ orders'[i].currency = orders[i].currency]_vars

\* an order provisioned to completion whose amount is no longer what its package
\* would cost now, at the current price and rate
C8_Witness ==
    \E i \in OrderIds :
        /\ orders[i].status = "completed"
        /\ orders[i].amount #
             packagePrices[Deref(orders[i].packagePriceID)].effectivePriceUSD
                * GetUSDToMNTRate(rates, now, Nil).rate
        /\ packagePrices[Deref(orders[i].packagePriceID)].priceSource # "base"
        /\ Len(rates) > 0

\* C9: a delivery for an existing order issues one provisioning call when the mapped
\* status is "paid" and none otherwise; never more than one within one handling.
C9_ProvisioningIffPaid ==
    \A w \in Workers :
        /\ H(w).calls <= 1
        /\ (H(w).pc = "done" /\ H(w).order # 0)
           => H(w).calls = IF GetPaymentStatus(H(w).paymentStatus) = "paid" THEN 1 ELSE 0

C9_Witness ==
    \E w \in Workers :
        /\ PaidDeliveryDone(w)
        /\ H(w).result = "error"
        /\ H(w).calls = 1
        /\ provCalls[H(w).order] = 1

\* C10: an order whose status is paid is being handled by an operation that has yet
\* to make the provisioning attempt; no operation has returned leaving it paid.
C10_PaidNeverAtRest ==
    \A i \in OrderIds :
        orders[i].status = "paid"
        => \E w \in Workers : H(w).order = i /\ H(w).pc \notin {"idle", "done"}

\* the payment_transactions rows of an order
TransactionsOf(oid) == {t \in 1..Len(transactions) : transactions[t].orderID = oid}

\* C11: every order has at most one payment transaction row, whatever the interleaving
\* of CreateOrder, InitiatePayment and webhook deliveries.
C11_OneTransactionPerOrder ==
    \A i \in OrderIds : Cardinality(TransactionsOf(i)) <= 1

\* a step in which CreateOrder ran and returned
CreateOrderReturned == reply = NoReply /\ reply'.op = "CreateOrder"

\* the row CreateOrder inserted in this step
Inserted == orders'[Len(orders')]

\* C12: when the invoice call of CreateOrder fails, the order row it inserted is kept
\* with status failed and no invoice id, no payment transaction exists for it, the
\* rows that existed are as they were, and the call returns an error.
C12_InvoiceFailureAtCreation ==
    [][(CreateOrderReturned /\ reply'.invoice = "error")
       => /\ Len(orders') = Len(orders) + 1
          /\ SubSeq(orders', 1, Len(orders)) = orders
          /\ Inserted.status = "failed"
          /\ Inserted.qpayInvoiceID = ""
          /\ transactions' = transactions
          /\ \A t \in 1..Len(transactions') : transactions'[t].orderID # Len(orders')
          /\ reply'.err]_vars

C12_Witness ==
    /\ reply.op = "CreateOrder"
    /\ reply.invoice = "error"
    /\ Len(orders) > 0
    /\ orders[Len(orders)].status = "failed"
    /\ orders[Len(orders)].qpayInvoiceID = ""
    /\ TransactionsOf(Len(orders)) = {}

\* the rate a call that has just returned resolved: the newest row when the call
\* fetched one or found it fresh, else the last known rate or the fallback
ResolvedRate == GetUSDToMNTRate(rates', now, Nil).rate

\* a stored amount is the exact one to the two decimals the amount columns keep
ToTheCent(stored, exact) == stored % 100 = 0 /\ stored - exact \in -50..50

\* what a successful CreateOrder leaves, given the USD unit price it must have charged
CreatedWith(unitPriceUSD) ==
    /\ Len(orders') = Len(orders) + 1
    /\ SubSeq(orders', 1, Len(orders)) = orders
    /\ Inserted.status = "pending"
    /\ Inserted.qpayInvoiceID \in InvoiceIds
    /\ Inserted.currency = "MNT"
    /\ ToTheCent(Inserted.amount, unitPriceUSD * ResolvedRate)
    /\ Len(transactions') = Len(transactions) + 1
    /\ SubSeq(transactions', 1, Len(transactions)) = transactions
    /\ \A t \in 1..Len(transactions) : transactions[t].orderID # Len(orders')
    /\ transactions'[Len(transactions')].orderID = Len(orders')
    /\ transactions'[Len(transactions')].status = "pending"
    /\ transactions'[Len(transactions')].amount = Inserted.amount

\* C13 as stated: a CreateOrder that returns without error leaves one new pending order
\* with the invoice id, currency MNT and amount = the selected package's effective USD
\* price x the current rate, and one pending transaction of the same amount.
C13_CreatedAtEffectivePrice ==
    [][(CreateOrderReturned /\ ~reply'.err)
       => CreatedWith(packagePrices[Deref(Inserted.packagePriceID)].effectivePriceUSD)]_vars

\* C13 amended: the unit price is the request's custom_price_usd when it carries one,
\* and the selected package's effective USD price otherwise.
C13_CreatedAtFinalPrice ==
    [][(CreateOrderReturned /\ ~reply'.err)
       => CreatedWith(IF IsNil(Deref(reply'.req).customPriceUSD)
                      THEN packagePrices[Deref(Inserted.packagePriceID)].effectivePriceUSD
                      ELSE Deref(Deref(reply'.req).customPriceUSD))]_vars

\* raw 10.00 with markup 20% at rate 3450: an order of 41400.00
C13_Witness ==
    /\ reply.op = "CreateOrder"
    /\ ~reply.err
    /\ IsNil(Deref(reply.req).customPriceUSD)
    /\ Len(orders) > 0
    /\ orders[Len(orders)].amount = 414000000
    /\ orders[Len(orders)].status = "pending"
    /\ LET pp == packagePrices[Deref(orders[Len(orders)].packagePriceID)]
       IN  /\ pp.rawProviderPrice = 1000
           /\ pp.markupPercent = Ptr(20)
           /\ pp.priceSource = "markup"
    /\ Len(rates) > 0
    /\ rates[Len(rates)].rate = 345000

\* a request CreateOrder must reject: no package selection, an unknown product, an
\* unknown package price, or a package price of another SKU than the product's
MustReject(req) ==
    \/ req.productID \notin DOMAIN Products
    \/ IsNil(req.packagePriceID) /\ IsNil(req.providerPriceID)
    \/ LET id == IF ~IsNil(req.packagePriceID) THEN Deref(req.packagePriceID)
                 ELSE Deref(req.providerPriceID)
       IN  \/ id \notin DOMAIN packagePrices
           \/ packagePrices[id].skuID # Products[req.productID].skuID

\* C14: a CreateOrder call with such a request returns an error, makes no invoice
\* request and leaves the orders and the payment transactions as they were.
C14_ValidationBeforeCreation ==
    [][(CreateOrderReturned /\ MustReject(Deref(reply'.req)))
       => /\ reply'.err
          /\ reply'.invoice = ""
          /\ orders' = orders
          /\ transactions' = transactions]_vars

\* a request for a package of another SKU, rejected while an order exists
C14_Witness ==
    /\ reply.op = "CreateOrder"
    /\ reply.msg = "selected package does not belong to product sku"
    /\ MustReject(Deref(reply.req))
    /\ Deref(reply.req).productID \in DOMAIN Products
    /\ ~IsNil(Deref(reply.req).providerPriceID)
    /\ Len(orders) > 0

\* worker w takes a delivery in this step
Received(w) == H(w).pc = "idle" /\ handlers'[w].pc # "idle"

\* C15: a well-formed webhook whose sender_invoice_no is no order's order_number ends at
\* once with an error (answered 500), with the orders, the payment transactions and the
\* provisioning calls as they were, and the handling does nothing afterwards.
C15_UnknownOrderWebhook ==
    [][\A w \in Workers :
          /\ (/\ Received(w)
              /\ handlers'[w].sender # 0
              /\ \A i \in OrderIds : orders[i].orderNumber # handlers'[w].sender)
             => /\ handlers'[w].pc = "done"
                /\ handlers'[w].ret = "error"
                /\ StatusCode(handlers'[w].ret) = 500
                /\ handlers'[w].calls = 0
                /\ orders' = orders
                /\ transactions' = transactions
                /\ provCalls' = provCalls
          /\ (H(w).pc = "done" /\ H(w).sender # 0 /\ H(w).order = 0)
             => handlers'[w] \in {H(w), IdleHandler}]_vars

C15_Witness ==
    \E w \in Workers :
        /\ H(w).pc = "done"
        /\ H(w).sender # 0
        /\ H(w).order = 0
        /\ H(w).paymentStatus = "PAID"
        /\ H(w).ret = "error"
        /\ Len(orders) > 0
        /\ \A i \in OrderIds : orders[i].orderNumber # H(w).sender /\ orders[i].status = "pending"

\* the fields missing from the body a handler received
Missing(h) == IF IsNil(h.body) THEN {} ELSE Deref(h.body).missing

\* HTTP client-error statuses
ClientErrors == 400..499

\* C16: a webhook whose body is not a JSON object, or lacks one of the seven fields (or
\* has it with the wrong type), is answered with a 4xx status at once, with the orders,
\* the payment transactions and the provisioning calls as they were, and the handling
\* does nothing afterwards.
C16_MalformedWebhook ==
    [][\A w \in Workers :
          /\ (Received(w) /\ Missing(handlers'[w]) # {})
             => /\ handlers'[w].pc = "done"
                /\ StatusCode(handlers'[w].ret) \in ClientErrors
                /\ handlers'[w].calls = 0
                /\ orders' = orders
                /\ transactions' = transactions
                /\ provCalls' = provCalls
          /\ (H(w).pc # "idle" /\ Missing(H(w)) # {})
             => handlers'[w] \in {H(w), IdleHandler}]_vars

\* a body without transaction_id under a header that verifies, refused while the
\* order it names is pending
C16_Witness ==
    \E w \in Workers :
        /\ H(w).pc = "done"
        /\ Missing(H(w)) = {"transaction_id"}
        /\ ~IsNil(H(w).signature)
        /\ Deref(H(w).signature)[4] = Password
        /\ Deref(H(w).signature)[3] = "PAID"
        /\ H(w).ret = "bad request"
        /\ Len(orders) > 0
        /\ orders[1].status = "pending"

\* the signature the service expects for the body a handler received
Expected(h) ==
    Signature(Deref(h.body).invoiceID, Deref(h.body).amount, Deref(h.body).paymentStatus,
              Password)

\* C17: a webhook with an X-QPay-Signature header that differs from the expected
\* signature is refused at once (no order found or read into the handling, orders,
\* transactions and provisioning calls as they were, nothing done afterwards); a
\* well-formed webhook without the header goes on to the order lookup.
C17_SignaturePolicy ==
    [][\A w \in Workers :
          /\ (/\ Received(w)
              /\ ~IsNil(handlers'[w].signature)
              /\ Deref(handlers'[w].signature) # Expected(handlers'[w]))
             => /\ handlers'[w].pc = "done"
                /\ handlers'[w].ret \in {"unauthorized", "bad request"}
                /\ handlers'[w].order = 0
                /\ IsNil(handlers'[w].found)
                /\ handlers'[w].calls = 0
                /\ orders' = orders
                /\ transactions' = transactions
                /\ provCalls' = provCalls
          /\ (H(w).pc = "done" /\ H(w).ret \in {"unauthorized", "bad request"})
             => handlers'[w] \in {H(w), IdleHandler}
          /\ (/\ Received(w)
              /\ IsNil(handlers'[w].signature)
              /\ Missing(handlers'[w]) = {})
             => /\ handlers'[w].ret \notin {"unauthorized", "bad request"}
                /\ handlers'[w].sender = Deref(handlers'[w].body).sender
                /\ (\E i \in OrderIds : orders[i].orderNumber = handlers'[w].sender)
                   => handlers'[w].pc = "found"]_vars

\* a PAID body for a pending order under the signature of the same body with status
\* PENDING: refused
C17_Witness ==
    \E w \in Workers :
        /\ H(w).pc = "done"
        /\ H(w).ret = "unauthorized"
        /\ Missing(H(w)) = {}
        /\ Deref(H(w).body).paymentStatus = "PAID"
        /\ Deref(H(w).signature) = Signature("INV1", 414000000, "PENDING", Password)
        /\ \E i \in OrderIds :
              orders[i].orderNumber = Deref(H(w).body).sender /\ orders[i].status = "pending"

\* a PAID body without header provisioned the order
C17_WitnessUnsigned ==
    \E w \in Workers :
        /\ PaidDeliveryDone(w)
        /\ IsNil(H(w).signature)
        /\ orders[H(w).order].status = "completed"

\* a step in which InitiatePayment ran and returned
InitiatePaymentReturned == reply = NoReply /\ reply'.op = "InitiatePayment"

\* C18: InitiatePayment for an order whose status is not pending returns an error,
\* calls neither CheckPayment nor CreateInvoice and leaves the orders and the payment
\* transactions as they were.
C18_ReissueOnlyWhilePending ==
    [][(/\ InitiatePaymentReturned
        /\ \E i \in OrderIds : /\ orders[i].orderNumber = Deref(reply'.req)
                               /\ orders[i].status # "pending")
       => /\ reply'.err
          /\ reply'.check = ""
          /\ reply'.invoice = ""
          /\ orders' = orders
          /\ transactions' = transactions]_vars

\* refused for an order whose provisioning failed after payment
C18_Witness ==
    /\ reply.op = "InitiatePayment"
    /\ reply.msg = "order is not in pending status"
    /\ \E i \in OrderIds :
          /\ orders[i].orderNumber = Deref(reply.req)
          /\ orders[i].status = "failed"
          /\ orders[i].qpayInvoiceID # ""
          /\ \E t \in TransactionsOf(i) : transactions[t].status = "paid"

\* C19: no order is ever in status cancelled, whatever the operations and whatever the
\* payment_status of the webhooks received, CANCELLED included.
C19_CancelledNeverReached == \A i \in OrderIds : orders[i].status # "cancelled"

\* the precedence rule applied to a row's stored raw price, markup and override:
\* the effective USD price and the price source it yields
ByPrecedence(pp) ==
    IF ~IsNil(pp.overridePriceUSD)
    THEN [price |-> Deref(pp.overridePriceUSD), source |-> "override"]
    ELSE IF ~IsNil(pp.markupPercent)
    THEN [price |-> WithMarkup(pp.rawProviderPrice, Deref(pp.markupPercent)),
          source |-> "markup"]
    ELSE [price |-> pp.rawProviderPrice, source |-> "base"]

\* C20: after any sequence of SyncPackagePrices, SetPackageMarkup and SetPackageOverride
\* every PackagePrice row's effective USD price and price source are those the
\* precedence rule (override, else markup, else base) gives for the row's stored raw
\* price, markup and override.
C20_PricePrecedence ==
    \A id \in DOMAIN packagePrices :
        /\ packagePrices[id].effectivePriceUSD = ByPrecedence(packagePrices[id]).price
        /\ packagePrices[id].priceSource = ByPrecedence(packagePrices[id]).source

\* a sync has just replaced the raw price of a row that carries a markup and no override
C20_Witness ==
    /\ reply.op = "SyncPackagePrices"
    /\ ~reply.err
    /\ 1 \in DOMAIN packagePrices
    /\ ~IsNil(packagePrices[1].markupPercent)
    /\ IsNil(packagePrices[1].overridePriceUSD)
    /\ packagePrices[1].rawProviderPrice = 1100
    /\ packagePrices[1].effectivePriceUSD = 1320
    /\ packagePrices[1].priceSource = "markup"

\* a step in which an admin pricing call of the given name ran and returned without error
PricingDone(op) == reply = NoReply /\ reply'.op = op /\ ~reply'.err

\* the row a returned pricing call was about, before and after the call
RowBefore == Deref(Deref(reply'.req).found)

RowAfter == packagePrices'[Deref(reply'.req).providerPriceID]

\* C21 (as stated): on no PackagePrice row are markup_percent and override_price_usd
\* both set.
C21_NeverBothStored ==
    \A id \in DOMAIN packagePrices :
        IsNil(packagePrices[id].markupPercent) \/ IsNil(packagePrices[id].overridePriceUSD)

\* C21 (amended): setting a markup clears the stored override; setting an override keeps
\* the stored markup and takes it out of effect, the effective price being the override
\* with source override.
C21_NeverCombinedInEffect ==
    [][/\ PricingDone("SetPackageMarkup")
          => /\ RowAfter.markupPercent = Deref(reply'.req).value
             /\ IsNil(RowAfter.overridePriceUSD)
             /\ RowAfter.priceSource = "markup"
       /\ (PricingDone("SetPackageOverride") /\ ~IsNil(Deref(reply'.req).value))
          => /\ RowAfter.overridePriceUSD = Deref(reply'.req).value
             /\ RowAfter.markupPercent = RowBefore.markupPercent
             /\ RowAfter.effectivePriceUSD = Deref(RowAfter.overridePriceUSD)
             /\ RowAfter.priceSource = "override"]_vars

\* an override has just been set on a row that carries a markup: both are stored
C21_Witness ==
    /\ reply.op = "SetPackageOverride"
    /\ ~reply.err
    /\ ~IsNil(Deref(reply.req).value)
    /\ ~IsNil(Deref(Deref(reply.req).found).markupPercent)
    /\ ~IsNil(packagePrices[Deref(reply.req).providerPriceID].markupPercent)
    /\ ~IsNil(packagePrices[Deref(reply.req).providerPriceID].overridePriceUSD)

\* C22: clearing the override (SetPackageOverride with null) makes the effective USD
\* price raw x (1 + m/100) with source markup when the row stores a markup m, set before
\* the override, and the raw price with source base when it stores none.
C22_ClearedOverrideReverts ==
    [][(PricingDone("SetPackageOverride") /\ IsNil(Deref(reply'.req).value))
       => /\ IsNil(RowAfter.overridePriceUSD)
          /\ RowAfter.markupPercent = RowBefore.markupPercent
          /\ RowAfter.rawProviderPrice = RowBefore.rawProviderPrice
          /\ IF ~IsNil(RowBefore.markupPercent)
             THEN /\ RowAfter.effectivePriceUSD =
                        WithMarkup(RowBefore.rawProviderPrice, Deref(RowBefore.markupPercent))
                  /\ RowAfter.priceSource = "markup"
             ELSE /\ RowAfter.effectivePriceUSD = RowBefore.rawProviderPrice
                  /\ RowAfter.priceSource = "base"]_vars

\* the override of a row that carried a markup under it has just been cleared
C22_Witness ==
    /\ reply.op = "SetPackageOverride"
    /\ ~reply.err
    /\ IsNil(Deref(reply.req).value)
    /\ ~IsNil(Deref(Deref(reply.req).found).overridePriceUSD)
    /\ ~IsNil(Deref(Deref(reply.req).found).markupPercent)
    /\ Deref(Deref(reply.req).found).priceSource = "override"
    /\ packagePrices[Deref(reply.req).providerPriceID].priceSource = "markup"
    /\ packagePrices[Deref(reply.req).providerPriceID].effectivePriceUSD =
          WithMarkup(packagePrices[Deref(reply.req).providerPriceID].rawProviderPrice,
                     Deref(Deref(Deref(reply.req).found).markupPercent))

\* a step in which an admin pricing call ran and returned
PricingReturned == reply = NoReply /\ reply'.op \in {"UpdatePackageMarkup", "SetPackageMarkup",
                                                    "SetPackageOverride"}

\* the value sent is one the claim wants refused: a markup below 0 or above the bound,
\* an override that is not strictly positive
Refusable ==
    /\ ~IsNil(Deref(reply'.req).value)
    /\ IF reply'.op = "SetPackageOverride"
       THEN Deref(Deref(reply'.req).value) <= 0
       ELSE \/ Deref(Deref(reply'.req).value) < 0
            \/ Deref(Deref(reply'.req).value) > MaxMarkupPercent

\* C23: an override that is not strictly positive and a markup outside 0..500 percent
\* are rejected, and every PackagePrice row (markup, override, effective USD and MNT
\* price, price source) is left as it was.
C23_PricingInputValidation ==
    [][(PricingReturned /\ Refusable) => reply'.err /\ packagePrices' = packagePrices]_vars

\* a markup above the bound has just been refused for a row that carries an override
C23_Witness ==
    /\ reply.op = "UpdatePackageMarkup"
    /\ reply.msg = "markup_percent out of range"
    /\ Deref(Deref(reply.req).value) > MaxMarkupPercent
    /\ ~IsNil(Deref(reply.req).found)
    /\ packagePrices[Deref(reply.req).providerPriceID].priceSource = "override"

\* an override of zero has just been refused for a row that carries a markup
C23_WitnessOverride ==
    /\ reply.op = "SetPackageOverride"
    /\ reply.msg = "override must be > 0"
    /\ Deref(Deref(reply.req).value) <= 0
    /\ packagePrices[Deref(reply.req).providerPriceID].priceSource = "markup"

\* a step in which the rate resolver ran (through GetPricingInfo) and returned
RateResolved == reply = NoReply /\ reply'.op = "GetPricingInfo"

\* the stored USD->MNT rows, and the most recent of them, before the step
Stored == Len(rates) > 0

Newest == rates[Len(rates)]

C24_WitnessFallback ==
    /\ reply.op = "GetPricingInfo"
    /\ IsNil(Deref(reply.req).fetch)
    /\ Len(rates) = 0
    /\ Deref(reply.val).rate = FallbackRate * 100

\* C25: while the most recent stored row is younger than 24 hours GetUSDToMNTRate
\* returns its rate without contacting the external source and without appending a row;
\* when the newest row is older or absent and the fetch succeeds, exactly one row with
\* source api is appended and its rate is returned.
C25_FreshnessWindow ==
    [][RateResolved
       => IF Stored /\ now - Newest.lastUpdated < FreshTicks
          THEN /\ Deref(reply'.val).rate = Newest.rate
               /\ ~Deref(reply'.val).fetched
               /\ rates' = rates
          ELSE /\ Deref(reply'.val).fetched
               /\ ~IsNil(Deref(reply'.req).fetch)
                  => /\ Len(rates') = Len(rates) + 1
                     /\ SubSeq(rates', 1, Len(rates)) = rates
                     /\ rates'[Len(rates')].source = "api"
                     /\ rates'[Len(rates')].rate = Deref(Deref(reply'.req).fetch)
                     /\ Deref(reply'.val).rate = Deref(Deref(reply'.req).fetch)]_vars

\* a manual rate, the most recent row and 12 hours old, is returned over an older api
\* row, the source not being contacted
C25_Witness ==
    /\ reply.op = "GetPricingInfo"
    /\ ~Deref(reply.val).fetched
    /\ Len(rates) = 2
    /\ rates[1].source = "api"
    /\ rates[2].source = "manual"
    /\ now > rates[2].lastUpdated
    /\ Deref(reply.val).rate = rates[2].rate
    /\ Deref(reply.val).rate # rates[1].rate

\* the newest row was 24 hours old, the fetch succeeded and one api row was appended
C25_WitnessStale ==
    /\ reply.op = "GetPricingInfo"
    /\ Deref(reply.val).fetched
    /\ Len(rates) = 2
    /\ now - rates[1].lastUpdated >= FreshTicks
    /\ rates[2].source = "api"
    /\ rates[2].lastUpdated = now
    /\ Deref(reply.val).rate = rates[2].rate

\* C26: the rate history is append-only: every row of currency_rates that exists before
\* an operation exists after it with the same rate, source and timestamp.
C26_RateHistoryAppendOnly ==
    [][/\ Len(rates') >= Len(rates)
       /\ \A i \in 1..Len(rates) : rates'[i] = rates[i]]_vars

\* a manual rate has been added after an api row, which is still there
C26_Witness ==
    /\ reply.op = "SetManualExchangeRate"
    /\ Len(rates) = 2
    /\ rates[1].source = "api"
    /\ rates[2].source = "manual"
    /\ rates[2].lastUpdated > rates[1].lastUpdated

\* the invoice request of the call that has just returned, when it sent one
InvoiceSent == reply.op \in {"CreateOrder", "InitiatePayment"} /\ ~IsNil(reply.val)

\* amount is whole tugriks and is what is left of stored when its fraction is dropped
TruncatedToUnit(amount, stored) ==
    amount % 10000 = 0 /\ stored - amount >= 0 /\ stored - amount < 10000

\* C27: every invoice request for an order, at creation and on each re-issue, carries
\* the order's stored amount truncated toward zero to a whole tugrik.
C27_InvoiceAmountTruncated ==
    InvoiceSent
    => \A i \in OrderIds :
          orders[i].orderNumber = Deref(reply.val).sender
          => TruncatedToUnit(Deref(reply.val).amount, orders[i].amount)

\* a step in which a call returned after asking the gateway for an invoice
InvoiceAsked ==
    reply = NoReply /\ reply'.op \in {"CreateOrder", "InitiatePayment"} /\ ~IsNil(reply'.val)

C28_WitnessReissue ==
    /\ reply.op = "InitiatePayment"
    /\ ~reply.err
    /\ ~IsNil(reply.val)
    /\ \E i \in OrderIds : /\ orders[i].orderNumber = Deref(reply.val).sender
                           /\ orders[i].qpayInvoiceID # ""

\* a step that starts a delivery e-mail, and a step in which one ends
MailStarted == Len(mails') = Len(mails) + 1

MailEnded(m) == mails[m].state = "sending" /\ mails'[m].state # "sending"

\* C29: the delivery e-mail is started only by a provisioning that succeeded, after the
\* order was saved as completed; the webhook handling has its result in that same step,
\* the e-mail still being under way; and however the e-mail ends (sent or failed, or
\* never) it changes no order: status, partner order id and delivery artifact stay.
C29_NotificationFireAndForget ==
    [][/\ MailStarted
          => \E w \in Workers :
                /\ H(w).pc = "called" /\ H(w).result # "error"
                /\ handlers'[w].pc = "done" /\ handlers'[w].ret = "ok"
                /\ mails'[Len(mails')] = NewMail(H(w).order, H(w).result)
                /\ orders'[H(w).order].status = "completed"
                /\ orders'[H(w).order].roamwifiOrderID = H(w).result
       /\ (~MailStarted) => Len(mails') = Len(mails)
       /\ \A m \in 1..Len(mails) :
             MailEnded(m) => /\ orders' = orders
                             /\ transactions' = transactions
                             /\ handlers' = handlers
                             /\ reply' = reply]_vars

\* the e-mail failed after the webhook handling had returned: the order is completed
\* with the partner order id the e-mail was for
C29_Witness ==
    \E m \in 1..Len(mails) :
        /\ mails[m].state = "failed"
        /\ \A w \in Workers : H(w).pc = "idle"
        /\ orders[mails[m].order].status = "completed"
        /\ orders[mails[m].order].roamwifiOrderID = mails[m].orderID
        /\ ~IsNil(orders[mails[m].order].esimData)

\* the webhook handling has returned and the e-mail is still under way
C29_WitnessNotAwaited ==
    \E m \in 1..Len(mails) :
        /\ mails[m].state = "sending"
        /\ \A w \in Workers : H(w).pc = "idle"
        /\ orders[mails[m].order].status = "completed"

\* the adapter operation on goroutine w
Op(w) == adapter.ops[w]

C30_WitnessLoginFailed ==
    \E w \in Workers :
        /\ Op(w).pc = "done"
        /\ Op(w).err
        /\ adapter.token > 0
        /\ Op(w).sent = 0

\* a CreateOrder operation of the adapter that has decoded the partner's answer
Decoded(w) ==
    /\ Op(w).pc = "done"
    /\ Op(w).op = "CreateOrder"
    /\ ~IsNil(Op(w).resp)
    /\ ~IsNil(Op(w).result)

\* the code the partner sent is 0 or 200, as a JSON number or as a JSON string
IsSuccessCode(code) ==
    \/ code.type = "number" /\ code.tenths \in {0, 2000}
    \/ code.type = "string" /\ code.text \in {"0", "200"}

\* C31: CreateOrder succeeds exactly when the partner's code is 0 or 200 (number or
\* string) and the response has a data object; with any other code, or a code missing
\* or of another type, it fails and the error carries the partner's message.
C31_PartnerSuccessCodes ==
    \A w \in Workers :
        Decoded(w) =>
            LET resp == Deref(Op(w).resp)
                res == Deref(Op(w).result)
            IN  /\ res.err = "" <=> (IsSuccessCode(resp.code) /\ ~IsNil(resp.data))
                /\ ~IsSuccessCode(resp.code) =>
                      /\ res.err # ""
                      /\ res.message = resp.message

\* a goroutine has signed a parameter map
Signed(w) == Op(w).pc = "done" /\ Op(w).op = "generateSignature"

\* the key=value pairs of a parameter map, the sign entry left out
Pairs(params) == {<<k, params[k]>> : k \in DOMAIN params \ {"sign"}}

\* the string the signature is defined on: key=value of every pair, keys ascending,
\* nothing between them, then the secret
Canonical(params) ==
    LET present == SelectSeq(ParamKeys, LAMBDA k : k \in DOMAIN params /\ k # "sign")
    IN  Join(present, params) \o signKey

\* C32: the signature of a parameter map is the hex MD5 of its pairs without sign,
\* sorted by key, written key=value with no separator, followed by the shared secret;
\* two calls with the same pairs give the same signature whatever the order of the keys.
C32_RequestSignature ==
    \A v, w \in Workers :
        /\ Signed(w) => Deref(Op(w).result) = MD5Hex(Canonical(Deref(Op(w).resp).params))
        /\ (/\ Signed(v) /\ Signed(w)
            /\ Pairs(Deref(Op(v).resp).params) = Pairs(Deref(Op(w).resp).params))
           => Op(v).result = Op(w).result

C32_Witness ==
    \E v, w \in Workers :
        /\ Signed(v) /\ Signed(w)
        /\ Deref(Op(v).resp).params = [token |-> "T1", sku_id |-> "1", skuId |-> "1"]
        /\ DOMAIN Deref(Op(w).resp).params = {"token", "sku_id", "skuId", "sign"}
        /\ Pairs(Deref(Op(v).resp).params) = Pairs(Deref(Op(w).resp).params)
        /\ Deref(Op(v).resp).order = <<"token", "sku_id", "skuId">>
        /\ Deref(Op(w).resp).order = <<"sku_id", "sign", "token", "skuId">>
        /\ Deref(Op(w).result) = MD5Hex("skuId=1sku_id=1token=T1ro@mw1f1-bpm-ap1")

Reg(w) == registers[w]

\* a Register request has been answered
Registered(w) == Reg(w).pc = "done"

\* the rows of the users table that carry an e-mail
UsersOf(email) == {i \in 1..Len(users) : users[i].email = email}

\* what Register does with a request, success being answered with the given status:
\* a request that binds, whose e-mail is not registered and whose insert goes through
\* is answered with it and has created the one user of its e-mail; a request for a
\* registered e-mail is rejected and creates nothing; e-mails stay unique
RegistersWith(success) ==
    /\ \A i, j \in 1..Len(users) : users[i].email = users[j].email => i = j
    /\ \A w \in Workers :
          Registered(w) =>
             LET r == Reg(w)
                 req == Deref(r.req)
             IN  /\ (Binds(req) /\ ~r.found /\ r.hashed /\ r.free)
                       => /\ r.status = success
                          /\ r.inserted # 0
                          /\ UsersOf(req.email) = {r.inserted}
                 /\ (r.found \/ (r.hashed /\ ~r.free))
                       => /\ r.status \in {409, 500}
                          /\ r.inserted = 0
                 /\ r.inserted # 0 => r.status = success

C33_WitnessConflict ==
    \E w \in Workers :
        /\ Registered(w) /\ Reg(w).found /\ Reg(w).status = 409
        /\ Cardinality(UsersOf(Deref(Reg(w).req).email)) = 1

\* C34: a write that makes an order completed finds it paid (or processing), however
\* the deliveries for the order interleave.
C34_CompletedOnlyFromPaid ==
    [][\A oid \in 1..Len(orders) :
          (orders'[oid].status = "completed" /\ orders[oid].status # "completed")
             => orders[oid].status \in {"paid", "processing"}]_vars

\* a provisioning call for the order succeeded and returned this partner order id
\* (every success starts the delivery e-mail, which records it)
Succeeded(oid, partnerOrderID) ==
    \E m \in 1..Len(mails) : mails[m].order = oid /\ mails[m].orderID = partnerOrderID

\* C35: a completed order has a non-empty partner order id and a stored delivery
\* artifact, written by a provisioning call for it that succeeded; an order without a
\* successful provisioning call has neither.
C35_CompletedImpliesDelivered ==
    \A oid \in 1..Len(orders) :
        /\ orders[oid].status = "completed"
              => /\ orders[oid].roamwifiOrderID # ""
                 /\ ~IsNil(orders[oid].esimData)
                 /\ Succeeded(oid, orders[oid].roamwifiOrderID)
        /\ (\A m \in 1..Len(mails) : mails[m].order # oid)
              => /\ orders[oid].roamwifiOrderID = ""
                 /\ IsNil(orders[oid].esimData)

\* C36: InitiatePayment for a pending order whose invoice the gateway does not report
\* PAID and whose new invoice cannot be created returns the error and leaves the order
\* (status pending, invoice id) and the payment transactions as they were.
C36_FailedReissueLeavesOrder ==
    [][(/\ InitiatePaymentReturned
        /\ reply'.invoice = "error"
        /\ reply'.check # "PAID"
        /\ \E i \in OrderIds : /\ orders[i].orderNumber = Deref(reply'.req)
                               /\ orders[i].status = "pending")
       => /\ reply'.err
          /\ reply'.msg = "failed to create QPay invoice"
          /\ orders' = orders
          /\ transactions' = transactions]_vars

\* the re-issue failed for a pending order that keeps its invoice and its transaction
C36_Witness ==
    /\ reply.op = "InitiatePayment"
    /\ reply.invoice = "error"
    /\ reply.check = "PENDING"
    /\ \E i \in OrderIds :
          /\ orders[i].orderNumber = Deref(reply.req)
          /\ orders[i].status = "pending"
          /\ orders[i].qpayInvoiceID = "INV1"
          /\ \E t \in TransactionsOf(i) :
                /\ transactions[t].qpayTransactionID = "INV1"
                /\ transactions[t].status = "pending"

\* C37: with two adapter operations running at once on one RoamWiFiService, each sends
\* its request with the token of its own login, never with the token the other
\* operation's login wrote to the shared field.
C37_TokenIsolation ==
    \A w \in Workers :
        (Op(w).pc = "done" /\ Op(w).op \in AdapterOps /\ ~Op(w).err)
            => Op(w).sent = Op(w).own

\* C38: every order row CreateOrder persists has a positive amount, whatever the
\* request's custom_price_usd and whatever the stored exchange rate.
C38_OrdersNeverFree == \A i \in OrderIds : orders[i].amount > 0

\* C39: a delivery moves on to provisioning only when the invoice_id it carries is the
\* invoice id stored on the order and the amount it reports paid is at least the
\* order's amount.
C39_WebhookMatchesInvoice ==
    [][\A w \in Workers :
          (H(w).pc = "paid" /\ handlers'[w].pc = "called")
             => /\ Deref(H(w).body).invoiceID = orders[H(w).order].qpayInvoiceID
                /\ Deref(H(w).body).amount >= orders[H(w).order].amount]_vars

====
